---- MODULE Spec2Model ----
(***************************************************************************)
(* portable/system.h as the C preprocessor processes it.                   *)
(*                                                                         *)
(* The header has no run-time behaviour: its behaviour is what the         *)
(* preprocessor does with it, directive by directive, in a translation     *)
(* unit that includes it.  The state is the preprocessor's macro table,    *)
(* the identifiers declared so far, the headers included so far and the    *)
(* position in the file; the inputs are the platform (what the compiler    *)
(* predefines and what the system headers provide) and the contents of     *)
(* config.h (the HAVE_* feature flags).                                    *)
(***************************************************************************)
EXTENDS Integers, Sequences, FiniteSets, TLC

VARIABLES
    platform,    \* what the compiler and the system headers provide
    config,      \* the contents of config.h: flag -> "undef", "0" or "1"
    pc,          \* line of the directive to process next; 0: outside the header
    inclusions,  \* how many times the translation unit has included the header
    macros,      \* the macro table: name -> replacement text, or "undef"
    declared,    \* identifiers (types, functions) declared so far
    included,    \* the #include directives processed, in order
    defcount,    \* per symbol, the number of definitions seen
    emitted,     \* symbols defined by system.h's own #define / typedef lines
    errors       \* diagnostics: <<kind, symbol>>

vars == <<platform, config, pc, inclusions, macros, declared, included,
          defcount, emitted, errors>>

\* How many times the translation unit includes portable/system.h.
MaxInclusions == 2

----------------------------------------------------------------------------
(* Names *)

Flags == {"HAVE_INTTYPES_H", "HAVE_STDINT_H", "HAVE_STRINGS_H",
          "HAVE_UNISTD_H", "HAVE_SYS_BITYPES_H", "HAVE_SSIZE_T"}

FilenoNames == {"STDIN_FILENO", "STDOUT_FILENO", "STDERR_FILENO"}

VaNames == {"va_copy", "__va_copy"}

MacroNames == Flags \cup FilenoNames \cup VaNames
                 \cup {"PORTABLE_SYSTEM_H", "_WIN32", "snprintf"}

DeclNames == {"ptrdiff_t", "va_list", "memcpy", "ssize_t", "int32_t",
              "snprintf", "_snprintf"}

Symbols == MacroNames \cup DeclNames

\* The flag that guards each conditionally included header.
FlagOf(h) ==
    CASE h = "inttypes.h"    -> "HAVE_INTTYPES_H"
      [] h = "stdint.h"      -> "HAVE_STDINT_H"
      [] h = "strings.h"     -> "HAVE_STRINGS_H"
      [] h = "unistd.h"      -> "HAVE_UNISTD_H"
      [] h = "sys/bitypes.h" -> "HAVE_SYS_BITYPES_H"

ConditionalHeaders == {"inttypes.h", "stdint.h", "strings.h", "unistd.h",
                       "sys/bitypes.h"}

UnconditionalHeaders == {"stdarg.h", "stddef.h", "stdio.h", "stdlib.h",
                         "string.h", "sys/types.h"}

\* The value POSIX gives each stream descriptor constant.
PosixValue(n) ==
    CASE n = "STDIN_FILENO"  -> "0"
      [] n = "STDOUT_FILENO" -> "1"
      [] n = "STDERR_FILENO" -> "2"

----------------------------------------------------------------------------
(* The file, directive by directive, keyed by source line. *)

Dir(op, sym, body, uses) == [op |-> op, sym |-> sym, body |-> body, uses |-> uses]

Inc(h) == Dir("include", h, "", {})

\* Lines 36, 37 and 105: the include guard.
GuardLinesNoDefine ==
    (36 :> Dir("ifndef", "PORTABLE_SYSTEM_H", "", {})) @@
    (105 :> Dir("endif", "", "", {}))

GuardLines ==
    (36 :> Dir("ifndef", "PORTABLE_SYSTEM_H", "", {})) @@
    (37 :> Dir("define", "PORTABLE_SYSTEM_H", "1", {})) @@
    (105 :> Dir("endif", "", "", {}))

\* Lines 40 and 43: config.h and portable/macros.h.
ConfigLinesLate ==
    (43 :> Inc("portable/macros.h")) @@
    (72 :> Inc("config.h"))

ConfigLines ==
    (40 :> Inc("config.h")) @@
    (43 :> Inc("portable/macros.h"))

\* Lines 46-63: the standard headers.
StdHeaderLinesIfdef ==
    (46 :> Dir("ifdef", "HAVE_INTTYPES_H", "", {})) @@
    (47 :> Inc("inttypes.h")) @@
    (48 :> Dir("endif", "", "", {})) @@
    (49 :> Inc("stdarg.h")) @@
    (50 :> Inc("stddef.h")) @@
    (51 :> Dir("ifdef", "HAVE_STDINT_H", "", {})) @@
    (52 :> Inc("stdint.h")) @@
    (53 :> Dir("endif", "", "", {})) @@
    (54 :> Inc("stdio.h")) @@
    (55 :> Inc("stdlib.h")) @@
    (56 :> Inc("string.h")) @@
    (57 :> Dir("ifdef", "HAVE_STRINGS_H", "", {})) @@
    (58 :> Inc("strings.h")) @@
    (59 :> Dir("endif", "", "", {})) @@
    (60 :> Inc("sys/types.h")) @@
    (61 :> Dir("ifdef", "HAVE_UNISTD_H", "", {})) @@
    (62 :> Inc("unistd.h")) @@
    (63 :> Dir("endif", "", "", {}))

StdHeaderLinesNoString ==
    (46 :> Dir("if", "HAVE_INTTYPES_H", "", {})) @@
    (47 :> Inc("inttypes.h")) @@
    (48 :> Dir("endif", "", "", {})) @@
    (49 :> Inc("stdarg.h")) @@
    (50 :> Inc("stddef.h")) @@
    (51 :> Dir("if", "HAVE_STDINT_H", "", {})) @@
    (52 :> Inc("stdint.h")) @@
    (53 :> Dir("endif", "", "", {})) @@
    (54 :> Inc("stdio.h")) @@
    (55 :> Inc("stdlib.h")) @@
    (57 :> Dir("if", "HAVE_STRINGS_H", "", {})) @@
    (58 :> Inc("strings.h")) @@
    (59 :> Dir("endif", "", "", {})) @@
    (60 :> Inc("sys/types.h")) @@
    (61 :> Dir("if", "HAVE_UNISTD_H", "", {})) @@
    (62 :> Inc("unistd.h")) @@
    (63 :> Dir("endif", "", "", {}))

StdHeaderLines ==
    (46 :> Dir("if", "HAVE_INTTYPES_H", "", {})) @@
    (47 :> Inc("inttypes.h")) @@
    (48 :> Dir("endif", "", "", {})) @@
    (49 :> Inc("stdarg.h")) @@
    (50 :> Inc("stddef.h")) @@
    (51 :> Dir("if", "HAVE_STDINT_H", "", {})) @@
    (52 :> Inc("stdint.h")) @@
    (53 :> Dir("endif", "", "", {})) @@
    (54 :> Inc("stdio.h")) @@
    (55 :> Inc("stdlib.h")) @@
    (56 :> Inc("string.h")) @@
    (57 :> Dir("if", "HAVE_STRINGS_H", "", {})) @@
    (58 :> Inc("strings.h")) @@
    (59 :> Dir("endif", "", "", {})) @@
    (60 :> Inc("sys/types.h")) @@
    (61 :> Dir("if", "HAVE_UNISTD_H", "", {})) @@
    (62 :> Inc("unistd.h")) @@
    (63 :> Dir("endif", "", "", {}))

\* Lines 66-68: sys/bitypes.h.
BitypesLines ==
    (66 :> Dir("if", "HAVE_SYS_BITYPES_H", "", {})) @@
    (67 :> Inc("sys/bitypes.h")) @@
    (68 :> Dir("endif", "", "", {}))

\* Line 71: the bool type.
StdboolLines ==
    (71 :> Inc("portable/stdbool.h"))

\* Lines 74-76: snprintf on Windows.
SnprintfLinesIfndef ==
    (74 :> Dir("ifndef", "_WIN32", "", {})) @@
    (75 :> Dir("define", "snprintf", "_snprintf", {"_snprintf"})) @@
    (76 :> Dir("endif", "", "", {}))

SnprintfLines ==
    (74 :> Dir("ifdef", "_WIN32", "", {})) @@
    (75 :> Dir("define", "snprintf", "_snprintf", {"_snprintf"})) @@
    (76 :> Dir("endif", "", "", {}))

\* Lines 79-81: ssize_t.
SsizeLinesEarly ==
    (41 :> Dir("ifndef", "HAVE_SSIZE_T", "", {})) @@
    (42 :> Dir("typedef", "ssize_t", "ptrdiff_t", {"ptrdiff_t"})) @@
    (44 :> Dir("endif", "", "", {}))

SsizeLines ==
    (79 :> Dir("ifndef", "HAVE_SSIZE_T", "", {})) @@
    (80 :> Dir("typedef", "ssize_t", "ptrdiff_t", {"ptrdiff_t"})) @@
    (81 :> Dir("endif", "", "", {}))

\* Lines 87-91: the stream descriptor constants.
FilenoLinesWrongValue ==
    (87 :> Dir("ifndef", "STDIN_FILENO", "", {})) @@
    (88 :> Dir("define", "STDIN_FILENO", "0", {})) @@
    (89 :> Dir("define", "STDOUT_FILENO", "1", {})) @@
    (90 :> Dir("define", "STDERR_FILENO", "1", {})) @@
    (91 :> Dir("endif", "", "", {}))

FilenoLines ==
    (87 :> Dir("ifndef", "STDIN_FILENO", "", {})) @@
    (88 :> Dir("define", "STDIN_FILENO", "0", {})) @@
    (89 :> Dir("define", "STDOUT_FILENO", "1", {})) @@
    (90 :> Dir("define", "STDERR_FILENO", "2", {})) @@
    (91 :> Dir("endif", "", "", {}))

\* Lines 97-103: va_copy.
ViaVaCopy == "__va_copy((d), (s))"
ViaMemcpy == "memcpy(&(d), &(s), sizeof(va_list))"

VaCopyLinesUnguarded ==
    (98 :> Dir("ifdef", "__va_copy", "", {})) @@
    (99 :> Dir("define", "va_copy", ViaVaCopy, {"__va_copy"})) @@
    (100 :> Dir("else", "", "", {})) @@
    (101 :> Dir("define", "va_copy", ViaMemcpy, {"memcpy", "va_list"})) @@
    (102 :> Dir("endif", "", "", {}))

VaCopyLinesSwapped ==
    (97 :> Dir("ifndef", "va_copy", "", {})) @@
    (98 :> Dir("ifndef", "__va_copy", "", {})) @@
    (99 :> Dir("define", "va_copy", ViaVaCopy, {"__va_copy"})) @@
    (100 :> Dir("else", "", "", {})) @@
    (101 :> Dir("define", "va_copy", ViaMemcpy, {"memcpy", "va_list"})) @@
    (102 :> Dir("endif", "", "", {})) @@
    (103 :> Dir("endif", "", "", {}))

VaCopyLines ==
    (97 :> Dir("ifndef", "va_copy", "", {})) @@
    (98 :> Dir("ifdef", "__va_copy", "", {})) @@
    (99 :> Dir("define", "va_copy", ViaVaCopy, {"__va_copy"})) @@
    (100 :> Dir("else", "", "", {})) @@
    (101 :> Dir("define", "va_copy", ViaMemcpy, {"memcpy", "va_list"})) @@
    (102 :> Dir("endif", "", "", {})) @@
    (103 :> Dir("endif", "", "", {}))

Program ==
    GuardLines @@ ConfigLines @@ StdHeaderLines @@ BitypesLines @@
    StdboolLines @@ SnprintfLines @@ SsizeLines @@ FilenoLines @@ VaCopyLines

Lines == DOMAIN Program

FirstLine == CHOOSE l \in Lines : \A k \in Lines : l <= k

\* The next directive after line l; 0 at the end of the file.
NextTable ==
    [l \in Lines |->
        IF \E k \in Lines : k > l
        THEN CHOOSE k \in Lines : k > l /\ \A j \in Lines : j > l => k <= j
        ELSE 0]

NextLine(l) == NextTable[l]

Conditionals == {"if", "ifdef", "ifndef"}

\* The #else or #endif that closes the group opened at line l, skipping
\* nested conditionals.
RECURSIVE Match(_, _)
Match(l, depth) ==
    LET k == NextLine(l)
        op == Program[k].op
    IN  IF op \in Conditionals THEN Match(k, depth + 1)
        ELSE IF op = "endif" THEN (IF depth = 0 THEN k ELSE Match(k, depth - 1))
        ELSE IF op = "else" /\ depth = 0 THEN k
        ELSE Match(k, depth)

MatchTable ==
    [l \in {k \in Lines : Program[k].op \in Conditionals \cup {"else"}} |->
        Match(l, 0)]

\* Where processing continues when the condition at line l is false: inside
\* the #else group, or at the closing #endif.
SkipGroup(l) ==
    LET k == MatchTable[l]
    IN  IF Program[k].op = "else" THEN NextLine(k) ELSE k

----------------------------------------------------------------------------
(* What the headers outside this file provide. *)

Range(s) == {s[i] : i \in DOMAIN s}

\* Macros a header defines: name -> replacement text.
HeaderMacros(h) ==
    CASE h = "config.h" ->
           {<<f, config[f]>> : f \in {g \in Flags : config[g] # "undef"}}
      [] h = "unistd.h" ->
           {<<n, PosixValue(n)>> : n \in platform.filenos}
      [] h = "stdarg.h" ->
           {<<n, "builtin">> : n \in platform.vamacros}
      [] OTHER -> {}

\* Identifiers a header declares.
HeaderDecls(h) ==
    CASE h = "stddef.h"   -> {"ptrdiff_t"}
      [] h = "stdarg.h"   -> {"va_list"}
      [] h = "string.h"   -> {"memcpy"}
      [] h = "stdio.h"    -> IF platform.win32 THEN {"_snprintf"} ELSE {"snprintf"}
      [] h = "sys/types.h" -> IF config["HAVE_SSIZE_T"] = "1" THEN {"ssize_t"} ELSE {}
      [] h \in {"inttypes.h", "stdint.h", "sys/bitypes.h"} -> {"int32_t"}
      [] OTHER -> {}

----------------------------------------------------------------------------
(* The preprocessor *)

IsDefined(n) == macros[n] # "undef"

\* #if NAME: an undefined name evaluates to 0.
IfTrue(n) == macros[n] \notin {"undef", "0"}

Init ==
    /\ platform \in [win32 : BOOLEAN,
                     filenos : SUBSET FilenoNames,
                     vamacros : SUBSET VaNames]
    /\ config \in [Flags -> {"undef", "0", "1"}]
    \* the stream descriptor constants are unistd.h's: no unistd.h, none
    /\ config["HAVE_UNISTD_H"] # "1" => platform.filenos = {}
    /\ pc = 0
    /\ inclusions = 0
    /\ macros = [n \in MacroNames |->
                   IF n = "_WIN32" /\ platform.win32 THEN "1" ELSE "undef"]
    /\ declared = {}
    /\ included = <<>>
    /\ defcount = [s \in Symbols |-> 0]
    /\ emitted = {}
    /\ errors = {}

\* The translation unit reaches a #include of portable/system.h.
StartInclusion ==
    /\ pc = 0
    /\ inclusions < MaxInclusions
    /\ inclusions' = inclusions + 1
    /\ pc' = FirstLine
    /\ UNCHANGED <<platform, config, macros, declared, included, defcount,
                   emitted, errors>>

AtOp(op) == pc \in Lines /\ Program[pc].op = op

Branch(cond) ==
    /\ pc' = IF cond THEN NextLine(pc) ELSE SkipGroup(pc)
    /\ UNCHANGED <<platform, config, inclusions, macros, declared, included,
                   defcount, emitted, errors>>

DoIfndef ==
    /\ AtOp("ifndef")
    /\ Branch(~IsDefined(Program[pc].sym))

DoIfdef ==
    /\ AtOp("ifdef")
    /\ Branch(IsDefined(Program[pc].sym))

DoIf ==
    /\ AtOp("if")
    /\ Branch(IfTrue(Program[pc].sym))

\* An #else reached from inside its #if group: the group was taken, so the
\* #else group is skipped.
DoElse ==
    /\ AtOp("else")
    /\ pc' = MatchTable[pc]
    /\ UNCHANGED <<platform, config, inclusions, macros, declared, included,
                   defcount, emitted, errors>>

DoEndif ==
    /\ AtOp("endif")
    /\ pc' = NextLine(pc)
    /\ UNCHANGED <<platform, config, inclusions, macros, declared, included,
                   defcount, emitted, errors>>

\* #include of another header.  The other headers guard themselves: a second
\* inclusion of one adds nothing.
DoInclude ==
    /\ AtOp("include")
    /\ LET h == Program[pc].sym
           first == h \notin Range(included)
           ms == IF first THEN HeaderMacros(h) ELSE {}
           ds == IF first THEN HeaderDecls(h) \ declared ELSE {}
       IN  /\ included' = Append(included, h)
           /\ macros' = [n \in MacroNames |->
                           IF \E m \in ms : m[1] = n
                           THEN (CHOOSE m \in ms : m[1] = n)[2]
                           ELSE macros[n]]
           /\ declared' = declared \cup ds
           /\ defcount' = [s \in Symbols |->
                             IF (\E m \in ms : m[1] = s) \/ s \in ds
                             THEN defcount[s] + 1 ELSE defcount[s]]
    /\ pc' = NextLine(pc)
    /\ UNCHANGED <<platform, config, inclusions, emitted, errors>>

\* #define NAME body.  Redefining a macro with a different replacement text
\* is a constraint violation; with the same text it is allowed.
DoDefine ==
    /\ AtOp("define")
    /\ LET d == Program[pc]
       IN  /\ macros' = [macros EXCEPT ![d.sym] = d.body]
           /\ defcount' = [defcount EXCEPT ![d.sym] = @ + 1]
           /\ emitted' = emitted \cup {d.sym}
           /\ errors' = IF macros[d.sym] \notin {"undef", d.body}
                        THEN errors \cup {<<"redefined", d.sym>>}
                        ELSE errors
    /\ pc' = NextLine(pc)
    /\ UNCHANGED <<platform, config, inclusions, declared, included>>

\* typedef body sym.  The aliased type must be declared; the new name must
\* not be.
DoTypedef ==
    /\ AtOp("typedef")
    /\ LET d == Program[pc]
       IN  /\ declared' = declared \cup {d.sym}
           /\ defcount' = [defcount EXCEPT ![d.sym] = @ + 1]
           /\ emitted' = emitted \cup {d.sym}
           /\ errors' = errors
                 \cup {<<"undeclared", u>> : u \in d.uses \ declared}
                 \cup (IF d.sym \in declared THEN {<<"conflict", d.sym>>} ELSE {})
    /\ pc' = NextLine(pc)
    /\ UNCHANGED <<platform, config, inclusions, macros, included>>

Next ==
    \/ StartInclusion
    \/ DoIfndef
    \/ DoIfdef
    \/ DoIf
    \/ DoElse
    \/ DoEndif
    \/ DoInclude
    \/ DoDefine
    \/ DoTypedef

Spec == Init /\ [][Next]_vars

----------------------------------------------------------------------------
(* Properties *)

\* The translation unit is past an inclusion of the header.
Done == pc = 0 /\ inclusions >= 1

Headers == Range(included)

\* portable/stdbool.h stands for stdbool.h: it is the header's way to get bool.
Provided ==
    Headers \cup (IF "portable/stdbool.h" \in Headers THEN {"stdbool.h"} ELSE {})

IntHeaders == {"inttypes.h", "stdint.h", "sys/bitypes.h"}

\* The symbols the header promises to every translation unit.
Promised == FilenoNames \cup {"int32_t", "va_copy", "snprintf"}

ExactlyOnce == errors = {} /\ \A s \in Promised : defcount[s] = 1

\* C1 as stated: in every configuration, after inclusion there is no
\* redefinition conflict and every promised symbol (the stream descriptor
\* constants, the integer-width types, va_copy, snprintf) is defined exactly
\* once.
C1_AsStated == Done => ExactlyOnce

\* C1 amended: the same, in every configuration in which the platform defines
\* either all three stream descriptor constants or none of them and at least
\* one of inttypes.h, stdint.h, sys/bitypes.h exists.
C1_ExactlyOnce ==
    (/\ Done
     /\ platform.filenos \in {{}, FilenoNames}
     /\ \E h \in IntHeaders : config[FlagOf(h)] = "1")
    => ExactlyOnce

C1_Witness ==
    /\ Done
    /\ platform.filenos = FilenoNames
    /\ platform.win32
    /\ "va_copy" \in platform.vamacros
    /\ config["HAVE_STDINT_H"] = "1"
    /\ "snprintf" \in emitted
    /\ ExactlyOnce

TenHeaders == {"sys/types.h", "stdarg.h", "stdbool.h", "stddef.h", "stdio.h",
               "stdlib.h", "stdint.h", "string.h", "strings.h", "unistd.h"}

\* C2 as stated: in every configuration, after inclusion all ten headers of
\* the header comment have been included.
C2_AsStated == Done => TenHeaders \subseteq Provided

\* C2 amended: after inclusion the six unconditional headers and the bool
\* header have been included in every configuration, and stdint.h, strings.h
\* and unistd.h in every configuration whose flag for that header is non-zero.
C2_Portably ==
    Done =>
        /\ UnconditionalHeaders \cup {"stdbool.h"} \subseteq Provided
        /\ \A h \in {"stdint.h", "strings.h", "unistd.h"} :
              config[FlagOf(h)] = "1" => h \in Provided

C2_Witness ==
    /\ Done
    /\ config["HAVE_STDINT_H"] = "1" /\ "stdint.h" \in Provided
    /\ config["HAVE_STRINGS_H"] = "0" /\ "strings.h" \notin Provided
    /\ "string.h" \in Provided

\* C3 as stated: after inclusion, each stream descriptor constant the
\* platform did not define is defined by the header with its value 0, 1 or 2,
\* and each one the platform defined keeps the platform's value.
C3_AsStated ==
    Done =>
        \A n \in FilenoNames :
            /\ n \notin platform.filenos => n \in emitted
            /\ macros[n] = PosixValue(n)

\* C3 amended: the three constants are defined as a group, on STDIN_FILENO
\* alone.  If the platform did not define STDIN_FILENO, the header defines
\* all three, as 0, 1 and 2.  If the platform defined it, the header defines
\* none of the three: those the platform defined keep the platform's value
\* and the others stay undefined.
C3_AsAGroup ==
    Done =>
        IF "STDIN_FILENO" \notin platform.filenos
        THEN \A n \in FilenoNames : n \in emitted /\ macros[n] = PosixValue(n)
        ELSE \A n \in FilenoNames :
                /\ n \notin emitted
                /\ macros[n] = IF n \in platform.filenos
                               THEN PosixValue(n) ELSE "undef"

C3_Witness ==
    /\ Done
    /\ platform.filenos = {"STDOUT_FILENO"}
    /\ FilenoNames \subseteq emitted
    /\ macros["STDERR_FILENO"] = "2"

\* C4 as stated: the typedef of ssize_t is emitted exactly when the platform
\* does not provide ssize_t (HAVE_SSIZE_T undefined, or defined as 0), and
\* ssize_t names a type after inclusion in every configuration.
C4_AsStated ==
    Done =>
        /\ "ssize_t" \in emitted <=> config["HAVE_SSIZE_T"] # "1"
        /\ "ssize_t" \in declared

\* C5: after inclusion va_copy is defined, by exactly one of three cases: the
\* platform's own macro, left untouched; else __va_copy((d), (s)) when
\* __va_copy is a macro; else memcpy(&(d), &(s), sizeof(va_list)).
C5_VaCopy ==
    Done =>
        /\ macros["va_copy"] =
              IF "va_copy" \in platform.vamacros THEN "builtin"
              ELSE IF "__va_copy" \in platform.vamacros THEN ViaVaCopy
              ELSE ViaMemcpy
        /\ "va_copy" \in emitted <=> "va_copy" \notin platform.vamacros
        /\ defcount["va_copy"] = 1

C5_Witness ==
    /\ Done
    /\ platform.vamacros = {"__va_copy"}
    /\ macros["va_copy"] = ViaVaCopy

\* C6: the header defines the macro snprintf, as _snprintf, if and only if
\* _WIN32 is defined; in no other configuration is snprintf a macro.
C6_Snprintf ==
    /\ "snprintf" \in emitted => platform.win32
    /\ macros["snprintf"] = IF "snprintf" \in emitted THEN "_snprintf" ELSE "undef"
    /\ Done => ("snprintf" \in emitted <=> platform.win32)

C6_Witness ==
    /\ Done
    /\ platform.win32
    /\ macros["snprintf"] = "_snprintf"

\* C7: after inclusion, each of inttypes.h, stdint.h, strings.h, unistd.h and
\* sys/bitypes.h has been included exactly when its flag is defined with a
\* non-zero value, and stdarg.h, stddef.h, stdio.h, stdlib.h, string.h and
\* sys/types.h have been included in every configuration.
C7_FlagsDecide ==
    Done =>
        /\ \A h \in ConditionalHeaders :
              h \in Headers <=> config[FlagOf(h)] = "1"
        /\ UnconditionalHeaders \subseteq Headers

C7_Witness ==
    /\ Done
    /\ config["HAVE_STDINT_H"] = "0" /\ "stdint.h" \notin Headers
    /\ config["HAVE_INTTYPES_H"] = "undef" /\ "inttypes.h" \notin Headers
    /\ config["HAVE_UNISTD_H"] = "1" /\ "unistd.h" \in Headers

\* What each name a fallback's replacement refers to needs, to be usable.
Available(n) == n \in declared \/ (n \in MacroNames /\ IsDefined(n))

\* C8: each fallback is emitted or not by its own guard alone (_WIN32;
\* HAVE_SSIZE_T; STDIN_FILENO; va_copy), whatever the other guards are, and
\* no configuration ends in an error: no diagnostic, and every name an
\* emitted fallback refers to is declared.
C8_Independent ==
    Done =>
        /\ "snprintf" \in emitted <=> platform.win32
        /\ "ssize_t" \in emitted <=> config["HAVE_SSIZE_T"] = "undef"
        /\ emitted \cap FilenoNames =
              IF "STDIN_FILENO" \in platform.filenos THEN {} ELSE FilenoNames
        /\ "va_copy" \in emitted <=> "va_copy" \notin platform.vamacros
        /\ errors = {}
        /\ \A l \in Lines :
              (Program[l].op \in {"define", "typedef"} /\ Program[l].sym \in emitted
                 /\ (Program[l].op = "define" => macros[Program[l].sym] = Program[l].body))
              => \A u \in Program[l].uses : Available(u)

C8_Witness ==
    /\ Done
    /\ emitted = {"PORTABLE_SYSTEM_H", "snprintf", "ssize_t", "va_copy"} \cup FilenoNames
    /\ macros["va_copy"] = ViaMemcpy
    /\ errors = {}

Tables == <<macros, declared, included, defcount, emitted, errors>>

\* C9: PORTABLE_SYSTEM_H is set on the first inclusion before anything else
\* is processed, and a second or later inclusion defines nothing and includes
\* nothing.
C9_Idempotent ==
    [][/\ macros'["PORTABLE_SYSTEM_H"] = "undef"
            => (included' = <<>> /\ emitted' = {} /\ declared' = {})
       /\ inclusions' >= 2 => Tables' = Tables]_vars

C9_Witness ==
    /\ Done
    /\ inclusions = 2
    /\ "va_copy" \in emitted
    /\ defcount["PORTABLE_SYSTEM_H"] = 1

\* C10: config.h is processed before any HAVE_* flag is tested; stddef.h
\* before the ssize_t typedef; unistd.h, where it exists, before STDIN_FILENO
\* is tested; stdarg.h before va_copy is tested; string.h before the memcpy
\* fallback is defined.
C10_Order ==
    pc \in Lines =>
        LET d == Program[pc]
        IN  /\ (d.op \in Conditionals /\ d.sym \in Flags) => "config.h" \in Headers
            /\ d.op = "typedef" => "stddef.h" \in Headers
            /\ (d.op \in Conditionals /\ d.sym = "STDIN_FILENO"
                  /\ config["HAVE_UNISTD_H"] = "1") => "unistd.h" \in Headers
            /\ (d.op \in Conditionals /\ d.sym = "va_copy") => "stdarg.h" \in Headers
            /\ (d.op = "define" /\ d.body = ViaMemcpy) => "string.h" \in Headers

C10_Witness ==
    /\ pc \in Lines
    /\ Program[pc].op = "define" /\ Program[pc].body = ViaMemcpy
    /\ config["HAVE_UNISTD_H"] = "1"
    /\ {"config.h", "stddef.h", "unistd.h", "stdarg.h", "string.h"} \subseteq Headers

====
